---- MODULE Spec2Model ----
(***************************************************************************)
(* Model of src/server.py: the TranscriptDict search engine                *)
(* (get_query_usages, get_query_usages_with_context, fetch_transcript) and *)
(* the four tools built on it.                                             *)
(*                                                                         *)
(* Conventions.  A text is a sequence of one-character strings.  A segment *)
(* is a record [start, text]; times are whole seconds.  Python list        *)
(* positions 0..n-1 are the TLA+ positions 1..n, so the code's index i is  *)
(* i+1 here and "adjacent" is still "differs by one".  A reference to a    *)
(* transcript entry (match, next_segment, a context entry) is modelled by  *)
(* the entry's position, which is what distinguishes two entries that      *)
(* carry the same start and text; None is position 0.                      *)
(***************************************************************************)
EXTENDS Integers, Sequences, FiniteSets, TLC

\* ---------------------------------------------------------------- bounds
MaxSegs == 3
MaxTextLen == 2
MaxQueryLen == 2
MaxTime == 2
MaxWindow == 1
\* the longest query handed to the search_transcript tool
MaxToolQueryLen == 1

\* ---------------------------------------------------------------- texts
\* transcript texts are drawn over TextAlphabet, queries over QueryAlphabet
TextAlphabet == {"A", " "}
QueryAlphabet == {"A", "a", " "}

RECURSIVE SeqsUpTo(_, _)
SeqsUpTo(S, n) ==
    IF n = 0 THEN {<<>>}
    ELSE LET shorter == SeqsUpTo(S, n - 1)
         IN  shorter \cup {Append(s, c) : s \in shorter, c \in S}

Texts == SeqsUpTo(TextAlphabet, MaxTextLen) \ {<<>>}
Queries == SeqsUpTo(QueryAlphabet, MaxQueryLen)
\* the tool hands its query on to get_query_usages_with_context, whose
\* behaviour on the longer queries is explored through the method itself
ToolQueries == SeqsUpTo(QueryAlphabet, MaxToolQueryLen)
Windows == (0 - 1)..MaxWindow
Times == 0..MaxTime

\* str.lower() on one character and on a text
LowerChar(c) == IF c = "A" THEN "a" ELSE c
Lower(s) == [i \in 1..Len(s) |-> LowerChar(s[i])]

\* Python's  q in t  on strings: q occurs in t as a contiguous substring
Contains(q, t) ==
    \E k \in 0..(Len(t) - Len(q)) : SubSeq(t, k + 1, k + Len(q)) = q

Max(a, b) == IF a >= b THEN a ELSE b
Min(a, b) == IF a <= b THEN a ELSE b
Range(s) == {s[i] : i \in 1..Len(s)}

\* ---------------------------------------------------------------- state
VARIABLES
    transcript_data,   \* self.transcript_data
    has_transcript,    \* self.has_transcript
    op,                \* the operation that ran last ("none" after construction)
    query,             \* its query argument
    context_window,    \* its context_window argument
    start_time,        \* its start_time argument
    end_time,          \* its end_time argument
    primary,           \* the list  matches  after the first loop (lines 120-123)
    matches,           \* the list  matches  when the record loop starts (line 143)
    results,           \* the value returned by get_query_usages_with_context
    usages,            \* the value returned by get_query_usages
    section,           \* the value returned by fetch_transcript
    video_url,         \* self.video_url
    tool_url,          \* the video_url argument of the tool that ran last
    outcome,           \* "returned" or "raised": how the last operation ended
    response           \* the kind of text the last tool returned

vars == <<transcript_data, has_transcript, op, query, context_window, start_time,
          end_time, primary, matches, results, usages, section, video_url,
          tool_url, outcome, response>>

\* ------------------------------------------------- TranscriptDict.search
\* the positions in S, ascending: what a  for entry in transcript_data  loop
\* that appends on a condition collects
RECURSIVE Ascending(_)
Ascending(S) ==
    IF S = {} THEN <<>>
    ELSE LET lo == CHOOSE x \in S : \A y \in S : x <= y
         IN  <<lo>> \o Ascending(S \ {lo})

\* lines 92-94 and 121-123: a case-sensitive test, the entry's text not lowered
PrimaryPassCaseSensitive(data, q) ==
    Ascending({i \in 1..Len(data) : Contains(q, data[i].text)})

\* lines 120-123: the first loop; q is the lowered query
PrimaryPass(data, q) ==
    Ascending({i \in 1..Len(data) : Contains(q, Lower(data[i].text))})

\* line 133
CombinedText(data, i) ==
    Lower(data[i].text) \o <<" ">> \o Lower(data[i + 1].text)

\* lines 127-138: the sliding window over pairs (i, i+1), from pair i on
RECURSIVE FallbackPass(_, _, _)
FallbackPass(data, q, i) ==
    IF i > Len(data) - 1 THEN <<>>
    ELSE (IF Contains(q, CombinedText(data, i)) THEN <<i, i + 1>> ELSE <<>>)
         \o FallbackPass(data, q, i + 1)

\* the sliding window run whether or not the first loop found anything
FindMatchesAlwaysFallback(data, q) ==
    PrimaryPass(data, q) \o FallbackPass(data, q, 1)

\* lines 119-138: the list  matches  the record loop iterates over
FindMatches(data, q) ==
    IF PrimaryPass(data, q) # <<>> THEN PrimaryPass(data, q)
    ELSE FallbackPass(data, q, 1)

\* lines 156-161: the entry of  matches  at match_index + 1, or None (0)
FindNext(ms, match_index) ==
    IF \E k \in 1..Len(ms) : ms[k] = match_index + 1 THEN match_index + 1 ELSE 0

\* the paired index is not marked as processed
MarkProcessedMatchOnly(processed, match_index, nxt) ==
    processed \cup {match_index}

\* lines 148 and 160: processed_indices after one iteration of the record loop
MarkProcessed(processed, match_index, nxt) ==
    processed \cup {match_index} \cup (IF nxt # 0 THEN {nxt} ELSE {})

\* lines 163-170
ContextBefore(data, match_time, cw) ==
    LET before_time_limit == Max(0, match_time - cw)
    IN  [entries |-> Ascending({j \in 1..Len(data) :
                        /\ before_time_limit <= data[j].start
                        /\ data[j].start < match_time}),
         available_seconds |-> match_time - before_time_limit]

\* lines 174-180
AfterTimeLimit(data, match_time, cw, nxt) ==
    IF nxt # 0 THEN Max(match_time + cw, data[nxt].start + cw)
    ELSE match_time + cw

\* lines 172-197
ContextAfter(data, match_time, cw, nxt) ==
    LET after_time_limit == AfterTimeLimit(data, match_time, cw, nxt)
        last_timestamp == IF Len(data) > 0 THEN data[Len(data)].start ELSE 0
    IN  [entries |-> Ascending({j \in 1..Len(data) :
                        /\ match_time < data[j].start
                        /\ data[j].start <= after_time_limit
                        /\ ~(nxt # 0 /\ data[j].start = data[nxt].start)}),
         available_seconds |-> Min(after_time_limit, last_timestamp) - match_time]

\* lines 199-214: one record of the result
MatchRecord(data, match_index, nxt, cw) ==
    [match |-> match_index,
     is_cross_segment |-> (nxt # 0),
     next_segment |-> nxt,
     context_before |-> ContextBefore(data, data[match_index].start, cw),
     context_after |-> ContextAfter(data, data[match_index].start, cw, nxt)]

\* lines 141-214: the record loop, from position k of  matches  on
RECURSIVE RecordLoop(_, _, _, _, _, _)
RecordLoop(data, ms, cw, k, processed, acc) ==
    IF k > Len(ms) THEN acc
    ELSE IF ms[k] \in processed
         THEN RecordLoop(data, ms, cw, k + 1, processed, acc)
         ELSE LET nxt == FindNext(ms, ms[k])
              IN  RecordLoop(data, ms, cw, k + 1,
                             MarkProcessed(processed, ms[k], nxt),
                             Append(acc, MatchRecord(data, ms[k], nxt, cw)))

\* lines 98-216: get_query_usages_with_context, with the two values of the
\* local list  matches  kept next to the returned list
get_query_usages_with_context(data, has, q, cw) ==
    IF ~has THEN [primary |-> <<>>, matches |-> <<>>, results |-> <<>>]
    ELSE LET ms == FindMatches(data, Lower(q))
         IN  [primary |-> PrimaryPass(data, Lower(q)),
              matches |-> ms,
              results |-> RecordLoop(data, ms, cw, 1, {}, <<>>)]

\* lines 75-96: get_query_usages, a dict from start time to text; a later
\* entry with the same start overwrites an earlier one
get_query_usages(data, has, q) ==
    IF ~has THEN <<>>
    ELSE LET hits == {i \in 1..Len(data) : Contains(Lower(q), Lower(data[i].text))}
             keys == {data[i].start : i \in hits}
         IN  [t \in keys |->
                data[CHOOSE i \in hits :
                        /\ data[i].start = t
                        /\ \A j \in hits : data[j].start = t => j <= i].text]

\* ------------------------------------------------------------ collaborators
\* A video_url argument: the string, and what urlparse makes of it (the path
\* split at "/", the query string as key/value pairs in order).
BareId == [raw |-> "ID", path |-> <<"ID">>, query |-> <<>>]
WatchUrl == [raw |-> "https://www.youtube.com/watch?v=ID",
             path |-> <<"", "watch">>, query |-> << <<"v", "ID">> >>]
WatchUrlAt == [raw |-> "https://www.youtube.com/watch?v=ID&t=42s",
               path |-> <<"", "watch">>, query |-> << <<"v", "ID">>, <<"t", "42s">> >>]
LiveUrl == [raw |-> "https://www.youtube.com/live/ID",
            path |-> <<"", "live", "ID">>, query |-> <<>>]
NoVUrl == [raw |-> "https://www.youtube.com/watch?t=42s",
           path |-> <<"", "watch">>, query |-> << <<"t", "42s">> >>]
Urls == {BareId, WatchUrlAt, LiveUrl, NoVUrl}

\* lines 13-31: the video id, or KeyError when the query string has no v
parse_video_id(url) ==
    IF "live" \in Range(url.path)
    THEN [raised |-> FALSE, id |-> url.path[Len(url.path)]]
    ELSE IF url.query # <<>>
         THEN IF \E k \in 1..Len(url.query) : url.query[k][1] = "v"
              THEN [raised |-> FALSE,
                    id |-> url.query[CHOOSE k \in 1..Len(url.query) :
                                /\ url.query[k][1] = "v"
                                /\ \A j \in 1..(k - 1) : url.query[j][1] # "v"][2]]
              ELSE [raised |-> TRUE, id |-> "KeyError"]
         ELSE [raised |-> FALSE, id |-> url.raw]

\* lines 34-48: the title; lookup_ok is whether the oembed request answers 200
\* with a title.  parse_video_id is called outside the try.
get_video_title(url, lookup_ok) ==
    IF parse_video_id(url).raised THEN [raised |-> TRUE, title |-> <<>>]
    ELSE IF lookup_ok THEN [raised |-> FALSE, title |-> <<"Title">>]
         ELSE [raised |-> FALSE, title |-> <<"Video", parse_video_id(url).id>>]

ResolvableUrls == {u \in Urls : ~parse_video_id(u).raised}

\* lines 244-253: the fields of the rendered timestamp
format_timestamp(seconds) ==
    LET hours == seconds \div 3600
        minutes == (seconds % 3600) \div 60
        secs == seconds % 60
    IN  IF hours > 0 THEN <<hours, minutes, secs>> ELSE <<minutes, secs>>

\* lines 238-239: one line of a formatted transcript
FormatEntry(entry) == <<format_timestamp(entry.start), entry.text>>

\* ------------------------------------------- TranscriptDict.fetch_transcript
\* the end bound taken as exclusive
InSectionExclusive(entry, s, e) ==
    entry.start >= s /\ (e = 0 \/ entry.start < e)

\* lines 235-237
InSection(entry, s, e) ==
    entry.start >= s /\ (e = 0 \/ entry.start <= e)

\* lines 233-241: the loop that builds  section
SectionLines(data, s, e) ==
    LET sel == Ascending({i \in 1..Len(data) : InSection(data[i], s, e)})
    IN  [k \in 1..Len(sel) |-> FormatEntry(data[sel[k]])]

\* the has_transcript test left out
fetch_transcript_unguarded(data, has, url, lookup_ok, s, e) ==
    [kind |-> "section", title |-> <<>>, lines |-> SectionLines(data, s, e)]

\* lines 218-241: the returned text: the "No transcript available" message
\* with the title, or the section's lines
fetch_transcript(data, has, url, lookup_ok, s, e) ==
    IF ~has
    THEN [kind |-> "no_transcript", title |-> get_video_title(url, lookup_ok).title,
          lines |-> <<>>]
    ELSE [kind |-> "section", title |-> <<>>, lines |-> SectionLines(data, s, e)]

\* -------------------------------------------------------------------- tools
NoResponse == [kind |-> "none", title |-> <<>>]

\* lines 268-300.  has: list_transcripts, find_transcript and fetch all succeed
get_full_transcript(data, has, url, lookup_ok) ==
    IF parse_video_id(url).raised
    THEN \* line 280 raises, the handler at 298-300 calls get_video_title
         IF get_video_title(url, lookup_ok).raised
         THEN [outcome |-> "raised", response |-> NoResponse, lines |-> <<>>]
         ELSE [outcome |-> "returned", lines |-> <<>>,
               response |-> [kind |-> "error",
                             title |-> get_video_title(url, lookup_ok).title]]
    ELSE IF has
         THEN [outcome |-> "returned",
               response |-> [kind |-> "transcript", title |-> <<>>],
               lines |-> [k \in 1..Len(data) |-> FormatEntry(data[k])]]
         ELSE [outcome |-> "returned", lines |-> <<>>,
               response |-> [kind |-> "no_transcript",
                             title |-> get_video_title(url, lookup_ok).title]]

\* lines 303-324.  list_ok: list_transcripts succeeds
get_video_information(url, lookup_ok, list_ok) ==
    IF parse_video_id(url).raised \/ get_video_title(url, lookup_ok).raised
    THEN [outcome |-> "raised", response |-> NoResponse]
    ELSE [outcome |-> "returned",
          response |-> [kind |-> IF list_ok THEN "information" ELSE "no_transcripts",
                        title |-> get_video_title(url, lookup_ok).title]]

EmptySearch == [primary |-> <<>>, matches |-> <<>>, results |-> <<>>]

\* lines 328-422
search_transcript(data, has, url, lookup_ok, q, cw) ==
    IF get_video_title(url, lookup_ok).raised
    THEN \* line 343, outside the try
         [outcome |-> "raised", response |-> NoResponse, search |-> EmptySearch]
    ELSE LET title == get_video_title(url, lookup_ok).title
             found == get_query_usages_with_context(data, has, Lower(q), cw)
         IN  IF ~has
             THEN [outcome |-> "returned", search |-> EmptySearch,
                   response |-> [kind |-> "no_transcript", title |-> title]]
             ELSE IF found.results = <<>>
                  THEN [outcome |-> "returned", search |-> found,
                        response |-> [kind |-> "no_matches", title |-> title]]
                  ELSE [outcome |-> "returned", search |-> found,
                        response |-> [kind |-> "found", title |-> title]]

NoSection == [kind |-> "none", title |-> <<>>, lines |-> <<>>]

\* lines 425-509
get_transcript_section(data, has, url, lookup_ok, s, e) ==
    IF parse_video_id(url).raised
    THEN \* line 498 raises, the handler at 507-509 calls get_video_title
         IF get_video_title(url, lookup_ok).raised
         THEN [outcome |-> "raised", response |-> NoResponse, text |-> NoSection]
         ELSE [outcome |-> "returned", text |-> NoSection,
               response |-> [kind |-> "error",
                             title |-> get_video_title(url, lookup_ok).title]]
    ELSE LET section_text == fetch_transcript(data, has, url, lookup_ok, s, e)
         IN  IF ~has
             THEN [outcome |-> "returned", text |-> section_text,
                   response |-> [kind |-> "no_transcript", title |-> section_text.title]]
             ELSE [outcome |-> "returned", text |-> section_text,
                   response |-> [kind |-> "section", title |-> <<>>]]

\* ------------------------------------------------------------ state machine
Segments == [start : Times, text : Texts]

Sorted(data) == \A i \in 1..(Len(data) - 1) : data[i].start <= data[i + 1].start

\* what the Transcript Source delivers: entries in ascending order of start
Transcripts == {d \in SeqsUpTo(Segments, MaxSegs) : Sorted(d)}

StartTimes == 0..(MaxTime + 1)
EndTimes == 0..(MaxTime + 1)

\* lines 56-73: the object after TranscriptDict(video_url), for a video_url
\* that parse_video_id accepts (the constructor raises otherwise); a failed
\* fetch leaves transcript_data empty.  Only fetch_transcript on an
\* unavailable transcript reads video_url, so it varies there.
Init ==
    /\ has_transcript \in BOOLEAN
    /\ transcript_data \in (IF has_transcript THEN Transcripts ELSE {<<>>})
    /\ video_url \in (IF has_transcript THEN {WatchUrl} ELSE ResolvableUrls \cup {WatchUrl})
    /\ op = "none"
    /\ query = <<>>
    /\ context_window = 0
    /\ start_time = 0
    /\ end_time = 0
    /\ primary = <<>>
    /\ matches = <<>>
    /\ results = <<>>
    /\ usages = <<>>
    /\ section = NoSection
    /\ tool_url = BareId
    /\ outcome = "returned"
    /\ response = NoResponse

GetQueryUsages ==
    /\ op = "none"
    /\ \E q \in Queries :
        /\ op' = "get_query_usages"
        /\ query' = q
        /\ usages' = get_query_usages(transcript_data, has_transcript, q)
        /\ outcome' = "returned"
        /\ context_window' = 0 /\ start_time' = 0 /\ end_time' = 0
        /\ primary' = <<>> /\ matches' = <<>> /\ results' = <<>>
        /\ section' = NoSection /\ tool_url' = BareId /\ response' = NoResponse
        /\ UNCHANGED <<transcript_data, has_transcript, video_url>>

GetQueryUsagesWithContext ==
    /\ op = "none"
    /\ \E q \in Queries, cw \in Windows :
        LET found == get_query_usages_with_context(transcript_data, has_transcript, q, cw)
        IN  /\ op' = "get_query_usages_with_context"
            /\ query' = q
            /\ context_window' = cw
            /\ primary' = found.primary
            /\ matches' = found.matches
            /\ results' = found.results
            /\ outcome' = "returned"
            /\ start_time' = 0 /\ end_time' = 0 /\ usages' = <<>>
            /\ section' = NoSection /\ tool_url' = BareId /\ response' = NoResponse
            /\ UNCHANGED <<transcript_data, has_transcript, video_url>>

FetchTranscript ==
    /\ op = "none"
    /\ \E s \in StartTimes, e \in EndTimes, lookup_ok \in BOOLEAN :
        /\ op' = "fetch_transcript"
        /\ start_time' = s
        /\ end_time' = e
        /\ section' = fetch_transcript(transcript_data, has_transcript, video_url,
                                       lookup_ok, s, e)
        /\ outcome' = "returned"
        /\ query' = <<>> /\ context_window' = 0 /\ usages' = <<>>
        /\ primary' = <<>> /\ matches' = <<>> /\ results' = <<>>
        /\ tool_url' = BareId /\ response' = NoResponse
        /\ UNCHANGED <<transcript_data, has_transcript, video_url>>

GetFullTranscript ==
    /\ op = "none"
    /\ \E u \in Urls, lookup_ok \in BOOLEAN :
        LET r == get_full_transcript(transcript_data, has_transcript, u, lookup_ok)
        IN  /\ op' = "get_full_transcript"
            /\ tool_url' = u
            /\ outcome' = r.outcome
            /\ response' = r.response
            /\ section' = [kind |-> r.response.kind, title |-> r.response.title,
                           lines |-> r.lines]
            /\ query' = <<>> /\ context_window' = 0 /\ usages' = <<>>
            /\ start_time' = 0 /\ end_time' = 0
            /\ primary' = <<>> /\ matches' = <<>> /\ results' = <<>>
            /\ UNCHANGED <<transcript_data, has_transcript, video_url>>

GetVideoInformation ==
    /\ op = "none"
    /\ \E u \in Urls, lookup_ok \in BOOLEAN, list_ok \in BOOLEAN :
        LET r == get_video_information(u, lookup_ok, list_ok)
        IN  /\ has_transcript => list_ok
            /\ op' = "get_video_information"
            /\ tool_url' = u
            /\ outcome' = r.outcome
            /\ response' = r.response
            /\ query' = <<>> /\ context_window' = 0 /\ usages' = <<>>
            /\ start_time' = 0 /\ end_time' = 0 /\ section' = NoSection
            /\ primary' = <<>> /\ matches' = <<>> /\ results' = <<>>
            /\ UNCHANGED <<transcript_data, has_transcript, video_url>>

SearchTranscript ==
    /\ op = "none"
    /\ \E u \in Urls, lookup_ok \in BOOLEAN, q \in ToolQueries, cw \in Windows :
        LET r == search_transcript(transcript_data, has_transcript, u, lookup_ok, q, cw)
        IN  /\ op' = "search_transcript"
            /\ tool_url' = u
            /\ query' = q
            /\ context_window' = cw
            /\ outcome' = r.outcome
            /\ response' = r.response
            /\ primary' = r.search.primary
            /\ matches' = r.search.matches
            /\ results' = r.search.results
            /\ usages' = <<>> /\ start_time' = 0 /\ end_time' = 0
            /\ section' = NoSection
            /\ UNCHANGED <<transcript_data, has_transcript, video_url>>

GetTranscriptSection ==
    /\ op = "none"
    /\ \E u \in Urls, lookup_ok \in BOOLEAN, s \in StartTimes, e \in EndTimes :
        LET r == get_transcript_section(transcript_data, has_transcript, u, lookup_ok, s, e)
        IN  /\ op' = "get_transcript_section"
            /\ tool_url' = u
            /\ start_time' = s
            /\ end_time' = e
            /\ outcome' = r.outcome
            /\ response' = r.response
            /\ section' = r.text
            /\ query' = <<>> /\ context_window' = 0 /\ usages' = <<>>
            /\ primary' = <<>> /\ matches' = <<>> /\ results' = <<>>
            /\ UNCHANGED <<transcript_data, has_transcript, video_url>>

\* the call is over (its value returned or its exception propagated): the
\* locals and the returned value are gone and the next call can be made
Return ==
    /\ op # "none"
    /\ op' = "none"
    /\ query' = <<>> /\ context_window' = 0 /\ start_time' = 0 /\ end_time' = 0
    /\ primary' = <<>> /\ matches' = <<>> /\ results' = <<>> /\ usages' = <<>>
    /\ section' = NoSection /\ tool_url' = BareId /\ outcome' = "returned"
    /\ response' = NoResponse
    /\ UNCHANGED <<transcript_data, has_transcript, video_url>>

\* the methods of one TranscriptDict object
Next ==
    \/ GetQueryUsages
    \/ GetQueryUsagesWithContext
    \/ FetchTranscript
    \/ Return

Spec == Init /\ [][Next]_vars

\* the tools of the server, called for one video; transcript_data and
\* has_transcript are what YouTubeTranscriptApi delivers for it, hence the
\* fields of the TranscriptDict a tool constructs
ToolNext ==
    \/ GetFullTranscript
    \/ GetVideoInformation
    \/ SearchTranscript
    \/ GetTranscriptSection
    \/ Return

ToolSpec == Init /\ [][ToolNext]_vars

\* ------------------------------------------------------------------ claims
Searched == op = "get_query_usages_with_context" /\ has_transcript
Positions == 1..Len(transcript_data)
\* the segment at position i contains the lowered query on its own
Hit(i) == Contains(Lower(query), Lower(transcript_data[i].text))
\* the pair (i, i+1), lowered and joined by one space, contains the lowered query
PairHit(i) ==
    Contains(Lower(query),
             Lower(transcript_data[i].text) \o <<" ">> \o Lower(transcript_data[i + 1].text))
Records == 1..Len(results)
StartOf(i) == transcript_data[i].start

\* C1: every segment whose lowered text contains the lowered query has its
\* index in the match list (and its start among the keys get_query_usages
\* returns), and the primary pass lists no segment that does not contain it.
C1_PrimaryPassFindsEveryContainingSegment ==
    /\ Searched =>
        /\ \A i \in Positions : Hit(i) => i \in Range(matches)
        /\ \A i \in Range(primary) : i \in Positions /\ Hit(i)
    /\ (op = "get_query_usages" /\ has_transcript) =>
        \A i \in Positions : Hit(i) => StartOf(i) \in DOMAIN usages

\* a search where a segment matches only after lowering, as a proper
\* substring, next to a segment that does not match
C1_Witness ==
    /\ Searched
    /\ \E i, j \in Positions :
        /\ Hit(i) /\ i \in Range(matches)
        /\ ~Contains(query, transcript_data[i].text)
        /\ Len(query) < Len(transcript_data[i].text)
        /\ ~Hit(j) /\ j \notin Range(matches)

\* C2: when some single segment contains the query, the match list is exactly
\* the primary-pass matches, each once; no pair concatenation adds an index.
C2_FallbackOnlyWhenPrimaryEmpty ==
    (Searched /\ \E i \in Positions : Hit(i)) =>
        /\ matches = primary
        /\ Range(matches) = {i \in Positions : Hit(i)}
        /\ Len(matches) = Cardinality({i \in Positions : Hit(i)})

\* a search with a primary match where a pair concatenation also contains the
\* query and involves a segment that does not contain it
C2_Witness ==
    /\ Searched
    /\ \E i \in Positions : Hit(i)
    /\ \E j \in 1..(Len(transcript_data) - 1) :
        /\ PairHit(j) /\ ~Hit(j)
        /\ j \notin Range(matches)

\* C3: when the primary pass finds nothing, every adjacent pair (i, i+1) whose
\* joined lowered texts contain the query is reported as one record with
\* match = i, is_cross_segment = true and next_segment = i+1, overlapping
\* pairs included.
C3_EveryMatchingPairIsACrossSegmentRecord ==
    (Searched /\ primary = <<>>) =>
        \A i \in 1..(Len(transcript_data) - 1) :
            PairHit(i) =>
                \E k \in Records :
                    /\ results[k].match = i
                    /\ results[k].is_cross_segment
                    /\ results[k].next_segment = i + 1

\* C4: every index of the match list is in exactly one record, as its match
\* or as its next_segment; a next_segment is never the match of a record; the
\* records are in strictly ascending order of match index.
C4_EachMatchedIndexInExactlyOneRecord ==
    op = "get_query_usages_with_context" =>
        /\ \A i \in Range(matches) :
            Cardinality({k \in Records : results[k].match = i})
              + Cardinality({k \in Records : /\ results[k].is_cross_segment
                                             /\ results[k].next_segment = i}) = 1
        /\ \A k, l \in Records :
            results[k].is_cross_segment => results[l].match # results[k].next_segment
        /\ \A k \in 1..(Len(results) - 1) : results[k].match < results[k + 1].match

\* a fallback search with overlapping pairs: the middle index is listed twice
\* and consumed as a next_segment, and a second record follows
C4_Witness ==
    /\ Searched
    /\ matches = <<1, 2, 2, 3>>
    /\ Len(results) = 2
    /\ results[1].is_cross_segment /\ results[1].next_segment = 2

\* C5: each record's context-before available_seconds is between 0 and
\* context_window, equals context_window when match_time >= context_window
\* and match_time otherwise; the context-before entries are exactly the
\* segments with start in [max(0, match_time - context_window), match_time).
C5_ContextBeforeWithinWindow ==
    Searched =>
        \A k \in Records :
            LET match_time == StartOf(results[k].match)
                before == results[k].context_before
            IN  /\ 0 <= before.available_seconds
                /\ before.available_seconds <= context_window
                /\ match_time >= context_window =>
                        before.available_seconds = context_window
                /\ match_time < context_window =>
                        before.available_seconds = match_time
                /\ before.entries =
                        Ascending({j \in Positions :
                            /\ Max(0, match_time - context_window) <= StartOf(j)
                            /\ StartOf(j) < match_time})

\* C6: each record's context-after entries are exactly the segments with start
\* in (match_time, upper_bound] other than the next_segment itself, where
\* upper_bound = match_time + window, extended to next_segment.start + window
\* for a cross-segment record.
C6_ContextAfterExcludesOnlyNextSegment ==
    Searched =>
        \A k \in Records :
            LET match_time == StartOf(results[k].match)
                nxt == results[k].next_segment
                upper_bound ==
                    IF results[k].is_cross_segment
                    THEN Max(match_time + context_window, StartOf(nxt) + context_window)
                    ELSE match_time + context_window
            IN  results[k].context_after.entries =
                    Ascending({j \in Positions :
                        /\ match_time < StartOf(j)
                        /\ StartOf(j) <= upper_bound
                        /\ ~(results[k].is_cross_segment /\ j = nxt)})

\* C7: fetch_transcript on an available transcript returns, in transcript
\* order, exactly the segments with start >= start_time and (end_time = 0 or
\* start <= end_time); with end_time > 0 they are a contiguous sub-range, empty
\* if start_time > end_time or start_time exceeds every start; the transcript
\* is never modified.
C7_SectionIsTheFilteredSubrange ==
    /\ [](( op = "fetch_transcript" /\ has_transcript ) =>
            LET sel == {i \in Positions :
                            /\ StartOf(i) >= start_time
                            /\ (end_time = 0 \/ StartOf(i) <= end_time)}
                order == Ascending(sel)
            IN  /\ section.kind = "section"
                /\ Len(section.lines) = Cardinality(sel)
                /\ \A k \in 1..Len(section.lines) :
                        section.lines[k] = <<format_timestamp(StartOf(order[k])),
                                             transcript_data[order[k]].text>>
                /\ end_time = 0 => sel = {i \in Positions : StartOf(i) >= start_time}
                /\ end_time > 0 =>
                        \A i, j, k \in Positions :
                            (i \in sel /\ k \in sel /\ i < j /\ j < k) => j \in sel
                /\ (end_time > 0 /\ start_time > end_time) => section.lines = <<>>
                /\ (\A i \in Positions : start_time > StartOf(i)) => section.lines = <<>>)
    /\ [][transcript_data' = transcript_data]_vars

\* a slice with end_time > 0 that is a proper, non-empty middle part of the
\* transcript: the first and the last segment are left out
C7_Witness ==
    /\ op = "fetch_transcript" /\ has_transcript
    /\ end_time > 0
    /\ Len(transcript_data) = 3
    /\ StartOf(1) < start_time /\ StartOf(3) > end_time
    /\ Len(section.lines) = 1

\* the returned text is the empty string
EmptyText(t) == t.kind = "section" /\ t.lines = <<>>

C9_NoExceptionEscapesATool ==
    op \in {"get_full_transcript", "get_video_information", "search_transcript",
            "get_transcript_section"} =>
        /\ outcome = "returned"
        /\ response.kind # "none"

\* C10: a record is cross-segment only if neither its match nor its
\* next_segment contains the query on its own; two adjacent segments that
\* each contain the query are each the match of their own non-cross record.
C10_CrossSegmentOnlyWhenQueryIsSplit ==
    Searched =>
        /\ \A k \in Records :
            results[k].is_cross_segment =>
                /\ ~Hit(results[k].match)
                /\ ~Hit(results[k].next_segment)
        /\ \A i \in 1..(Len(transcript_data) - 1) :
            (Hit(i) /\ Hit(i + 1)) =>
                \A j \in {i, i + 1} :
                    \E k \in Records :
                        results[k].match = j /\ ~results[k].is_cross_segment

\* C11: every record is a genuine match: a record that is not cross-segment
\* has a match segment whose lowered text contains the lowered query, and a
\* cross-segment record has a match segment and next_segment whose lowered
\* texts joined by one space contain it; no record is emitted for a lone
\* segment that does not contain the query.
C11_EveryRecordIsAGenuineMatch ==
    Searched =>
        \A k \in Records :
            IF results[k].is_cross_segment
            THEN /\ results[k].next_segment = results[k].match + 1
                 /\ PairHit(results[k].match)
            ELSE Hit(results[k].match)

====
